---- MODULE Spec2Model ----
(***************************************************************************)
(* Model of download_and_create_reference_datasets/v02/mito/utils.py:      *)
(* the Fetcher (_download_file), the Format Normalizer                     *)
(* (_convert_json_to_tsv) and the sequential pipeline (_load_mito_ht,      *)
(* load).  Python str values are TLA+ strings; the external collaborators  *)
(* (requests, zipfile, hail) are modelled by their effect on the state     *)
(* this code can observe: the requests issued, the local files, the row    *)
(* table and the table stored at the output path.                          *)
(***************************************************************************)
EXTENDS Integers, Sequences, FiniteSets, TLC

VARIABLES
    pc,        \* position of the call in progress
    args,      \* arguments of a direct call of _download_file
    config,    \* the Configuration record given to load / _load_mito_ht
    entry,     \* how the pipeline was entered, with the force flag/argument
    remote,    \* what the server at the URL answers
    data,      \* the parsed content of the input document (ordered records)
    fs,        \* local files: path -> [kind, size]
    fs0,       \* the local files before the call
    requests,  \* HTTP requests issued so far, in order
    writes,    \* local paths opened for writing so far, in order
    result,    \* outcome of the last call: [raised, ret]
    dn_path,   \* the pipeline's working path
    tsv,       \* the file written by _convert_json_to_tsv: [path, text]
    loaded,    \* the loader call made: [fn, path, recoding, types]
    ht,        \* the Row Table: [cols, rows, seen, key]
    stages,    \* the stages that have run, in order
    force_write, \* the overwrite flag _load_mito_ht runs with
    out,       \* the table stored at config.output_path
    out0       \* the table stored there before the run

vars == <<pc, args, config, entry, remote, data, fs, fs0, requests, writes, result,
          dn_path, tsv, loaded, ht, stages, force_write, out, out0>>

(***************************************************************************)
(* Bounds of the model.                                                    *)
(***************************************************************************)
MaxSize == 2       \* file and body sizes range over 0..MaxSize
MaxRecords == 2    \* records of a JSON document given to _convert_json_to_tsv

(***************************************************************************)
(* Python str and os.path operations, character by character.              *)
(***************************************************************************)
startswith(s, p) == Len(s) >= Len(p) /\ SubSeq(s, 1, Len(p)) = p

endswith(s, p) == Len(s) >= Len(p) /\ SubSeq(s, Len(s) - Len(p) + 1, Len(s)) = p

\* s[:-n] for n > 0
DropLast(s, n) == IF Len(s) <= n THEN "" ELSE SubSeq(s, 1, Len(s) - n)

RECURSIVE rstrip(_, _)
rstrip(s, c) ==
    IF s # "" /\ endswith(s, c) THEN rstrip(DropLast(s, 1), c) ELSE s

\* index of the last "/" of p, 0 when there is none
RECURSIVE LastSlash(_, _)
LastSlash(p, i) ==
    IF i = 0 THEN 0
    ELSE IF SubSeq(p, i, i) = "/" THEN i ELSE LastSlash(p, i - 1)

\* os.path.basename
basename(p) == SubSeq(p, LastSlash(p, Len(p)) + 1, Len(p))

\* os.path.dirname (posixpath: the head, trailing slashes stripped unless all slashes)
dirname(p) ==
    LET head == SubSeq(p, 1, LastSlash(p, Len(p)))
    IN  IF rstrip(head, "/") = "" THEN head ELSE rstrip(head, "/")

\* os.path.join of two components
join(a, b) ==
    IF startswith(b, "/") THEN b
    ELSE IF a = "" \/ endswith(a, "/") THEN a \o b
    ELSE a \o "/" \o b

\* str(n) and int(s) for naturals, digit by digit
Digits == <<"0", "1", "2", "3", "4", "5", "6", "7", "8", "9">>

RECURSIVE str_int(_)
str_int(n) == IF n < 10 THEN Digits[n + 1] ELSE str_int(n \div 10) \o Digits[(n % 10) + 1]

DigitVal(c) == CHOOSE d \in 0..9 : Digits[d + 1] = c

RECURSIVE int(_)
int(s) ==
    IF Len(s) = 1 THEN DigitVal(s)
    ELSE 10 * int(DropLast(s, 1)) + DigitVal(SubSeq(s, Len(s), Len(s)))

\* Python truthiness of an optional flag ("None" when config.get finds nothing)
Truthy(v) == v = "True"

(***************************************************************************)
(* Optional str: Python None or a str.                                     *)
(***************************************************************************)
None == [isNone |-> TRUE, s |-> ""]
Some(s) == [isNone |-> FALSE, s |-> s]

(***************************************************************************)
(* The local filesystem.                                                   *)
(***************************************************************************)
NoFiles == [p \in {} |-> [kind |-> "file", size |-> 0]]

isfile(files, p) == p \in DOMAIN files /\ files[p].kind = "file"

isdir(files, p) == p \in DOMAIN files /\ files[p].kind = "dir"

getsize(files, p) == files[p].size

PutFile(files, p, n) ==
    [q \in (DOMAIN files) \cup {p} |->
        IF q = p THEN [kind |-> "file", size |-> n] ELSE files[q]]

(***************************************************************************)
(* _download_file(url, to_dir, skip_verify).  srv is the server's answer   *)
(* (the Content-Length header of the HEAD response, the body), net says    *)
(* which requests get through.  The value is the call's whole effect: what *)
(* it returned or raised, the requests it issued, the paths it opened for  *)
(* writing and the files afterwards.                                       *)
(***************************************************************************)
\* a validation that looks at the "http" prefix only
ValidUrl_prefix_only(url) == ~url.isNone /\ url.s # "" /\ startswith(url.s, "http")

ValidUrl(url) == ~url.isNone /\ url.s # "" /\
                 (startswith(url.s, "http://") \/ startswith(url.s, "https://"))

LocalFilePath(url, to_dir) == join(to_dir, basename(rstrip(url.s, "/")))

HeadRequest(url) == [method |-> "HEAD", url |-> url.s, stream |-> FALSE, verify |-> TRUE]

GetRequest(url, skip_verify) ==
    [method |-> "GET", url |-> url.s,
     stream |-> (endswith(url.s, ".gz") \/ endswith(url.s, ".zip")),
     verify |-> ~Truthy(skip_verify)]

\* int(response.headers.get('Content-Length', '0'))
RemoteSize(srv) == int(IF srv.has_length THEN srv.content_length ELSE "0")

\* a cache check that never reads the Content-Length header
CacheHit_ignoring_header(url, to_dir, files, srv) ==
    LET local_file_path == LocalFilePath(url, to_dir)
    IN  isfile(files, local_file_path) /\ getsize(files, local_file_path) = 0

CacheHit(url, to_dir, files, srv) ==
    LET local_file_path == LocalFilePath(url, to_dir)
    IN  isfile(files, local_file_path) /\ getsize(files, local_file_path) = RemoteSize(srv)

Outcome(raised, ret, reqs, wr, files) ==
    [raised |-> raised, ret |-> ret, requests |-> reqs, writes |-> wr, fs |-> files]

\* lines 34-46: the full download
Download(url, to_dir, skip_verify, files, srv, net, reqs) ==
    LET local_file_path == LocalFilePath(url, to_dir)
        all == Append(reqs, GetRequest(url, skip_verify))
    IN  IF ~net.get_ok
        THEN Outcome("ConnectionError", "", all, <<>>, files)
        ELSE IF isdir(files, local_file_path) \/ ~isdir(files, to_dir)
        THEN Outcome("OSError", "", all, <<>>, files)
        ELSE Outcome("none", local_file_path, all, <<local_file_path>>,
                     PutFile(files, local_file_path, srv.body))

\* a test of the flag for "is not None" in place of its truth value
SkipsVerify_not_none(skip_verify) == skip_verify # "None"

SkipsVerify(skip_verify) == Truthy(skip_verify)

_download_file(url, to_dir, skip_verify, files, srv, net) ==
    IF ~ValidUrl(url)
    THEN Outcome("ValueError", "", <<>>, <<>>, files)
    ELSE IF ~SkipsVerify(skip_verify)
    THEN IF ~net.head_ok
         THEN Outcome("ConnectionError", "", <<HeadRequest(url)>>, <<>>, files)
         ELSE IF CacheHit(url, to_dir, files, srv)
         THEN Outcome("none", LocalFilePath(url, to_dir), <<HeadRequest(url)>>, <<>>, files)
         ELSE Download(url, to_dir, skip_verify, files, srv, net, <<HeadRequest(url)>>)
    ELSE Download(url, to_dir, skip_verify, files, srv, net, <<>>)

Net == [head_ok : BOOLEAN, get_ok : BOOLEAN]

(***************************************************************************)
(* _convert_json_to_tsv(json_path).  A JSON document is a sequence of      *)
(* records; a record is an ordered mapping, the sequence of its            *)
(* <<key, value>> items; a value is an int or a str.                       *)
(***************************************************************************)
IntVal(n) == [t |-> "int", n |-> n, s |-> ""]
StrVal(s) == [t |-> "str", n |-> 0, s |-> s]

\* str(v)
str(v) == IF v.t = "int" THEN str_int(v.n) ELSE v.s

keys(row) == [i \in 1..Len(row) |-> row[i][1]]

values(row) == [i \in 1..Len(row) |-> row[i][2]]

\* sep.join(parts)
RECURSIVE str_join(_, _)
str_join(sep, parts) ==
    IF parts = <<>> THEN ""
    ELSE IF Len(parts) = 1 THEN parts[1]
    ELSE parts[1] \o sep \o str_join(sep, Tail(parts))

\* a row written with commas between its values
RowLine_comma(row) == str_join(",", [i \in 1..Len(row) |-> str(values(row)[i])]) \o "\n"

\* line 57: the text of one row
RowLine(row) == str_join("\t", [i \in 1..Len(row) |-> str(values(row)[i])]) \o "\n"

RECURSIVE RowLines(_)
RowLines(doc) == IF doc = <<>> THEN "" ELSE RowLine(Head(doc)) \o RowLines(Tail(doc))

\* line 54-55: the header line
HeaderLine(doc) == str_join("\t", keys(doc[1])) \o "\n"

\* line 52
TsvPath(json_path) ==
    IF endswith(json_path, ".json") THEN DropLast(json_path, 5) \o ".tsv"
    ELSE json_path \o ".tsv"

Converted(raised, ret, text, wr, files) ==
    [raised |-> raised, ret |-> ret, text |-> text, writes |-> wr, fs |-> files]

_convert_json_to_tsv(json_path, doc, parses, files) ==
    LET tsv_path == TsvPath(json_path)
    IN  IF ~isfile(files, json_path)
        THEN Converted("OSError", "", "", <<>>, files)
        ELSE IF ~parses
        THEN Converted("JSONDecodeError", "", "", <<>>, files)
        ELSE IF isdir(files, tsv_path) \/ ~isdir(files, dirname(tsv_path))
        THEN Converted("OSError", "", "", <<>>, files)
        ELSE IF doc = <<>>
        THEN Converted("IndexError", "", "", <<tsv_path>>, PutFile(files, tsv_path, 0))
        ELSE LET text == HeaderLine(doc) \o RowLines(doc)
             IN  Converted("none", tsv_path, text, <<tsv_path>>,
                           PutFile(files, tsv_path, Len(text)))

(***************************************************************************)
(* Values the variables hold while the part they belong to has not run.    *)
(***************************************************************************)
NoArgs == [url |-> None, to_dir |-> "", skip_verify |-> "None"]
NoAnnotate == [isNone |-> TRUE, items |-> <<>>]
NoConfig == [input_path |-> None, input_type |-> "", output_path |-> "",
             field_types |-> "None", annotate |-> NoAnnotate, skip_verify_ssl |-> "None"]
NoEntry == [via |-> "", flag |-> FALSE, force |-> "None"]
NoRemote == [has_length |-> FALSE, content_length |-> "0", body |-> 0, member |-> ""]
NoResult == [raised |-> "none", ret |-> ""]
NoTsv == [path |-> "", text |-> ""]
NoLoad == [fn |-> "", path |-> "", recoding |-> FALSE, types |-> "None"]
NoTable == [cols |-> {}, rows |-> <<>>, seen |-> <<>>, key |-> <<>>, locus_type |-> ""]
NoOutput == [exists |-> FALSE, table |-> NoTable]

(***************************************************************************)
(* Direct calls of _download_file.                                         *)
(***************************************************************************)
tempdir == "/tmp"      \* tempfile.gettempdir()

FetchUrls ==
    {None, Some(""), Some("ftp://x/a.gz"), Some("http:/x/a"), Some("HTTP://x/a"),
     Some("x/http://a"), Some("http://x/a"), Some("https://x/a.gz"),
     Some("https://x/d/a.zip"), Some("https://x/t.json/")}

Remotes ==
    [has_length : BOOLEAN, content_length : {str_int(n) : n \in 0..MaxSize},
     body : 0..MaxSize, member : {"a"}]

\* the states the directory to_dir and the path p in it can be in
LocalFiles(to_dir, p) ==
    LET base == [q \in {to_dir} |-> [kind |-> "dir", size |-> 0]]
    IN  {NoFiles, base, [q \in {to_dir, p} |-> [kind |-> "dir", size |-> 0]]}
        \cup {PutFile(base, p, n) : n \in 0..MaxSize}

InitFetch ==
    /\ pc = "call_download_file"
    /\ args \in [url : FetchUrls, to_dir : {tempdir, "/data/"},
                 skip_verify : {"None", "False", "True"}]
    /\ remote \in Remotes
    /\ fs \in LocalFiles(args.to_dir,
                         IF args.url.isNone THEN "/tmp/a"
                         ELSE LocalFilePath(args.url, args.to_dir))
    /\ fs0 = fs
    /\ config = NoConfig /\ entry = NoEntry /\ data = <<>>
    /\ requests = <<>> /\ writes = <<>> /\ result = NoResult
    /\ dn_path = "" /\ tsv = NoTsv /\ loaded = NoLoad /\ ht = NoTable
    /\ stages = <<>> /\ force_write = FALSE /\ out = NoOutput /\ out0 = NoOutput

CallDownloadFile ==
    /\ pc = "call_download_file"
    /\ \E net \in Net :
         LET r == _download_file(args.url, args.to_dir, args.skip_verify, fs, remote, net)
         IN  /\ requests' = requests \o r.requests
             /\ writes' = writes \o r.writes
             /\ fs' = r.fs
             /\ result' = [raised |-> r.raised, ret |-> r.ret]
    /\ pc' = "returned"
    /\ UNCHANGED <<args, config, entry, remote, data, fs0, dn_path, tsv, loaded, ht,
                   stages, force_write, out, out0>>

NextFetch == CallDownloadFile

SpecFetch == InitFetch /\ [][NextFetch]_vars

(***************************************************************************)
(* Direct calls of _convert_json_to_tsv.                                   *)
(***************************************************************************)
JsonValues == {IntVal(1), IntVal(12), StrVal("x"), StrVal("p\nq")}

JsonRecords ==
    {<<>>}
    \cup {<<<<k, v>>>> : k \in {"a", "b"}, v \in JsonValues}
    \cup {<<<<k[1], v>>, <<k[2], w>>>> :
             k \in {<<"a", "b">>, <<"b", "a">>}, v \in JsonValues, w \in JsonValues}

ExampleDoc ==
    << <<<<"a", IntVal(1)>>, <<"b", IntVal(2)>>>>,
       <<<<"a", IntVal(3)>>, <<"b", IntVal(4)>>>> >>

JsonDocs ==
    {ExampleDoc} \cup UNION {[1..n -> JsonRecords] : n \in 0..MaxRecords}

InitTsv ==
    /\ pc = "call_convert_json_to_tsv"
    /\ dn_path \in {"/tmp/t.json", "/tmp/t"}
    /\ data \in JsonDocs
    /\ fs = PutFile([q \in {tempdir} |-> [kind |-> "dir", size |-> 0]], dn_path, 1)
    /\ fs0 = fs
    /\ args = NoArgs /\ remote = NoRemote
    /\ config = NoConfig /\ entry = NoEntry
    /\ requests = <<>> /\ writes = <<>> /\ result = NoResult
    /\ tsv = NoTsv /\ loaded = NoLoad /\ ht = NoTable
    /\ stages = <<>> /\ force_write = FALSE /\ out = NoOutput /\ out0 = NoOutput

CallConvertJsonToTsv ==
    /\ pc = "call_convert_json_to_tsv"
    /\ \E parses \in BOOLEAN :
         LET r == _convert_json_to_tsv(dn_path, data, parses, fs)
         IN  /\ writes' = writes \o r.writes
             /\ fs' = r.fs
             /\ result' = [raised |-> r.raised, ret |-> r.ret]
             /\ tsv' = [path |-> r.ret, text |-> r.text]
    /\ pc' = "returned"
    /\ UNCHANGED <<args, config, entry, remote, data, fs0, requests, dn_path, loaded, ht,
                   stages, force_write, out, out0>>

NextTsv == CallConvertJsonToTsv

SpecTsv == InitTsv /\ [][NextTsv]_vars

(***************************************************************************)
(* The pipeline: load and _load_mito_ht.                                   *)
(***************************************************************************)
contig_recoding ==
    [c \in {"1", "2", "3", "4", "5", "6", "7", "8", "9", "10", "11", "12", "13",
            "14", "15", "16", "17", "18", "19", "20", "21", "22", "X", "Y", "MT",
            "NW_009646201.1"} |->
        IF c = "MT" THEN "chrM"
        ELSE IF c = "NW_009646201.1" THEN "chr1"
        ELSE "chr" \o c]

\* a loader that is given no recoding map
recode_identity(c) == c

\* hl.import_vcf(..., contig_recoding=contig_recoding): a contig the map names is renamed
recode(c) == IF c \in DOMAIN contig_recoding THEN contig_recoding[c] ELSE c

\* the contig of a "contig:position" locus text
RECURSIVE ContigOf(_)
ContigOf(locus) ==
    IF locus = "" \/ Head(locus) = ":" THEN "" ELSE Head(locus) \o ContigOf(Tail(locus))

\* the locus text of an input row
LocusOf(row) ==
    LET at == {i \in 1..Len(row) : row[i][1] = "locus"}
    IN  IF at = {} THEN "" ELSE str(row[CHOOSE i \in at : TRUE][2])

VcfRowFields == {"locus", "alleles", "rsid", "qual", "filters", "info"}

\* line 73: hl.import_vcf(dn_path, force_bgz=True, contig_recoding=contig_recoding).rows()
import_vcf(doc) ==
    [cols |-> VcfRowFields,
     rows |-> [i \in 1..Len(doc) |-> [id |-> i, contig |-> recode(ContigOf(LocusOf(doc[i])))]],
     seen |-> <<>>, key |-> <<"locus", "alleles">>, locus_type |-> "locus"]

\* lines 76, 78: hl.import_table(path, types=types)
import_table(doc, types) ==
    [cols |-> IF doc = <<>> THEN {} ELSE {keys(doc[1])[i] : i \in 1..Len(doc[1])},
     rows |-> [i \in 1..Len(doc) |-> [id |-> i, contig |-> ContigOf(LocusOf(doc[i]))]],
     seen |-> <<>>, key |-> <<>>,
     locus_type |-> IF types = "{locus: tlocus}" THEN "locus" ELSE "str"]

\* line 71
Types(cfg) == IF cfg.field_types \in {"None", "{}"} THEN "{}" ELSE cfg.field_types

\* an annotation function applied to a table: the column expression it builds,
\* with the columns of the table it was given
Apply(func, table) == [func |-> func, sees |-> table.cols]

\* a comprehension that chains: each func is applied to the table annotated so far
RECURSIVE Comprehension_chained(_, _)
Comprehension_chained(items, table) ==
    IF items = <<>> THEN <<>>
    ELSE <<[field |-> items[1][1], expr |-> Apply(items[1][2], table)]>>
         \o Comprehension_chained(Tail(items),
                                  [table EXCEPT !.cols = @ \cup {items[1][1]}])

\* line 81, the dict comprehension: every func is applied to ht
RECURSIVE Comprehension(_, _)
Comprehension(items, table) ==
    IF items = <<>> THEN <<>>
    ELSE <<[field |-> items[1][1], expr |-> Apply(items[1][2], table)]>>
         \o Comprehension(Tail(items), table)

\* the contig and the type of the locus column an expression yields
LocusContig(func, contig) == IF func = "to_chrM" THEN "chrM" ELSE contig

LocusType(func) == IF func \in {"to_chrM", "parse_locus"} THEN "locus" ELSE "other"

\* ht.annotate(**exprs); hail refuses to overwrite a key field
annotate(table, exprs) ==
    LET fields == {exprs[i].field : i \in 1..Len(exprs)}
        of(f) == exprs[CHOOSE i \in 1..Len(exprs) : exprs[i].field = f].expr
        keyed == {table.key[i] : i \in 1..Len(table.key)}
    IN  IF fields \cap keyed # {}
        THEN [raised |-> "ExpressionException", table |-> table]
        ELSE [raised |-> "none",
              table |->
                [cols |-> table.cols \cup fields,
                 rows |-> IF "locus" \in fields
                          THEN [i \in 1..Len(table.rows) |->
                                  [table.rows[i] EXCEPT
                                     !.contig = LocusContig(of("locus").func, @)]]
                          ELSE table.rows,
                 seen |-> [f \in (DOMAIN table.seen) \cup fields |->
                             IF f \in fields THEN of(f).sees ELSE table.seen[f]],
                 key |-> table.key,
                 locus_type |-> IF "locus" \in fields THEN LocusType(of("locus").func)
                                ELSE table.locus_type]]

IsMito(row) == row.contig = "chrM"

\* line 83: ht.filter(ht.locus.contig == 'chrM')
filter(table) == [table EXCEPT !.rows = SelectSeq(@, IsMito)]

\* line 85: ht.key_by('locus', 'alleles')
key_by(table) == [table EXCEPT !.key = <<"locus", "alleles">>]

\* a write that clears the output path before it looks at the overwrite flag
write_clearing_first(store, table, overwrite) ==
    IF store.exists /\ ~overwrite
    THEN [raised |-> "HailUserError", store |-> NoOutput]
    ELSE [raised |-> "none", store |-> [exists |-> TRUE, table |-> table]]

\* line 88: ht.write(path, overwrite)
write(store, table, overwrite) ==
    IF store.exists /\ ~overwrite
    THEN [raised |-> "HailUserError", store |-> store]
    ELSE [raised |-> "none", store |-> [exists |-> TRUE, table |-> table]]

\* line 61: the default of the force_write parameter
force_write_default == TRUE

\* an order that writes the table before it is filtered and keyed
NextStage_write_first(at) ==
    CASE at = "fetch" -> "extract"
      [] at = "extract" -> "normalize"
      [] at = "normalize" -> "load_table"
      [] at = "load_table" -> "annotate"
      [] at = "annotate" -> "write"
      [] at = "write" -> "filter"
      [] at = "filter" -> "done"

\* the order of the statements of _load_mito_ht
NextStage(at) ==
    CASE at = "fetch" -> "extract"
      [] at = "extract" -> "normalize"
      [] at = "normalize" -> "load_table"
      [] at = "load_table" -> "annotate"
      [] at = "annotate" -> "filter"
      [] at = "filter" -> "write"
      [] at = "write" -> "done"

Abort(error) ==
    /\ pc' = "aborted"
    /\ result' = [raised |-> error, ret |-> ""]

\* lines 92-104: the CLI entry point
load ==
    /\ pc = "start" /\ entry.via = "load"
    /\ force_write' = entry.flag
    /\ pc' = "fetch"
    /\ UNCHANGED <<args, config, entry, remote, data, fs, fs0, requests, writes, result,
                   dn_path, tsv, loaded, ht, stages, out, out0>>

\* line 61: a direct call, with or without the force_write argument
_load_mito_ht ==
    /\ pc = "start" /\ entry.via = "direct"
    /\ force_write' = IF entry.force = "None" THEN force_write_default
                      ELSE entry.force = "True"
    /\ pc' = "fetch"
    /\ UNCHANGED <<args, config, entry, remote, data, fs, fs0, requests, writes, result,
                   dn_path, tsv, loaded, ht, stages, out, out0>>

\* line 63
Fetcher ==
    /\ pc = "fetch"
    /\ stages' = Append(stages, "Fetcher")
    /\ \E net \in Net :
         LET r == _download_file(config.input_path, tempdir, config.skip_verify_ssl,
                                 fs, remote, net)
         IN  /\ requests' = requests \o r.requests
             /\ writes' = writes \o r.writes
             /\ fs' = r.fs
             /\ IF r.raised # "none"
                THEN Abort(r.raised) /\ UNCHANGED dn_path
                ELSE /\ dn_path' = r.ret
                     /\ pc' = NextStage("fetch")
                     /\ UNCHANGED result
    /\ UNCHANGED <<args, config, entry, remote, data, fs0, tsv, loaded, ht,
                   force_write, out, out0>>

\* lines 65-68
Extractor ==
    /\ pc = "extract"
    /\ IF endswith(dn_path, ".zip")
       THEN /\ stages' = Append(stages, "Extractor")
            /\ \E readable \in BOOLEAN :
                 IF ~readable
                 THEN Abort("BadZipFile") /\ UNCHANGED <<fs, writes, dn_path>>
                 ELSE LET member == join(dirname(dn_path), remote.member)
                      IN  /\ fs' = PutFile(fs, member, 1)
                          /\ writes' = Append(writes, member)
                          /\ dn_path' = DropLast(dn_path, 4)
                          /\ pc' = NextStage("extract")
                          /\ UNCHANGED result
       ELSE /\ pc' = NextStage("extract")
            /\ UNCHANGED <<stages, fs, writes, dn_path, result>>
    /\ UNCHANGED <<args, config, entry, remote, data, fs0, requests, tsv, loaded, ht,
                   force_write, out, out0>>

\* lines 74-75
Normalizer ==
    /\ pc = "normalize"
    /\ IF config.input_type = "json"
       THEN /\ stages' = Append(stages, "Normalizer")
            /\ \E parses \in BOOLEAN :
                 LET r == _convert_json_to_tsv(dn_path, data, parses, fs)
                 IN  /\ fs' = r.fs
                     /\ writes' = writes \o r.writes
                     /\ IF r.raised # "none"
                        THEN Abort(r.raised) /\ UNCHANGED tsv
                        ELSE /\ tsv' = [path |-> r.ret, text |-> r.text]
                             /\ pc' = NextStage("normalize")
                             /\ UNCHANGED result
       ELSE /\ pc' = NextStage("normalize")
            /\ UNCHANGED <<stages, fs, writes, tsv, result>>
    /\ UNCHANGED <<args, config, entry, remote, data, fs0, requests, dn_path, loaded, ht,
                   force_write, out, out0>>

\* a selection that hands the downloaded JSON file to the table loader
LoaderCall_raw_json(cfg, path, tsv_path) ==
    IF cfg.input_type = "vcf"
    THEN [fn |-> "import_vcf", path |-> path, recoding |-> TRUE, types |-> "None"]
    ELSE [fn |-> "import_table", path |-> path, recoding |-> FALSE, types |-> Types(cfg)]

\* lines 71-78: the loader call the input type selects
LoaderCall(cfg, path, tsv_path) ==
    IF cfg.input_type = "vcf"
    THEN [fn |-> "import_vcf", path |-> path, recoding |-> TRUE, types |-> "None"]
    ELSE IF cfg.input_type = "json"
    THEN [fn |-> "import_table", path |-> tsv_path, recoding |-> FALSE, types |-> Types(cfg)]
    ELSE [fn |-> "import_table", path |-> path, recoding |-> FALSE, types |-> Types(cfg)]

Loader ==
    /\ pc = "load_table"
    /\ stages' = Append(stages, "Loader")
    /\ LET call == LoaderCall(config, dn_path, tsv.path)
       IN  /\ loaded' = call
           /\ \E parses \in BOOLEAN :
                IF ~isfile(fs, call.path) \/ ~parses
                THEN Abort("FatalError") /\ UNCHANGED ht
                ELSE /\ ht' = IF call.fn = "import_vcf" THEN import_vcf(data)
                              ELSE import_table(data, call.types)
                     /\ pc' = NextStage("load_table")
                     /\ UNCHANGED result
    /\ UNCHANGED <<args, config, entry, remote, data, fs, fs0, requests, writes, dn_path,
                   tsv, force_write, out, out0>>

\* lines 80-81
Annotator ==
    /\ pc = "annotate"
    /\ IF ~config.annotate.isNone /\ config.annotate.items # <<>>
       THEN /\ stages' = Append(stages, "Annotator")
            /\ \E evaluates \in BOOLEAN :
                 LET r == annotate(ht, Comprehension(config.annotate.items, ht))
                 IN  IF ~evaluates \/ r.raised # "none"
                     THEN /\ Abort(IF evaluates THEN r.raised ELSE "AnnotationError")
                          /\ UNCHANGED ht
                     ELSE /\ ht' = r.table
                          /\ pc' = NextStage("annotate")
                          /\ UNCHANGED result
       ELSE /\ pc' = NextStage("annotate")
            /\ UNCHANGED <<stages, ht, result>>
    /\ UNCHANGED <<args, config, entry, remote, data, fs, fs0, requests, writes, dn_path,
                   tsv, loaded, force_write, out, out0>>

\* lines 83-85
FilterKey ==
    /\ pc = "filter"
    /\ stages' = Append(stages, "Filter & Key")
    /\ IF "locus" \notin ht.cols \/ ht.locus_type # "locus"
       THEN Abort("AttributeError") /\ UNCHANGED ht
       ELSE IF "alleles" \notin ht.cols
       THEN Abort("LookupError") /\ UNCHANGED ht
       ELSE /\ ht' = key_by(filter(ht))
            /\ pc' = NextStage("filter")
            /\ UNCHANGED result
    /\ UNCHANGED <<args, config, entry, remote, data, fs, fs0, requests, writes, dn_path,
                   tsv, loaded, force_write, out, out0>>

\* lines 87-89
Writer ==
    /\ pc = "write"
    /\ stages' = Append(stages, "Writer")
    /\ LET r == write(out, ht, force_write)
       IN  /\ out' = r.store
           /\ IF r.raised # "none"
              THEN Abort(r.raised)
              ELSE pc' = NextStage("write") /\ UNCHANGED result
    /\ UNCHANGED <<args, config, entry, remote, data, fs, fs0, requests, writes, dn_path,
                   tsv, loaded, ht, force_write, out0>>

(***************************************************************************)
(* The runs of the pipeline.                                               *)
(***************************************************************************)
InputRow(locus) == <<<<"locus", StrVal(locus)>>, <<"alleles", StrVal("A,G")>>>>

PipeDocs ==
    {<<>>,
     <<InputRow("MT:1")>>,
     <<InputRow("1:7"), InputRow("MT:2"), InputRow("chrM:3")>>}

PipeUrls == {Some("https://x/t.json"), Some("https://x/a.zip"), Some("ftp://x/t.json")}

Annotations ==
    {NoAnnotate} \cup
    {[isNone |-> FALSE, items |-> items] : items \in
        {<<>>,
         <<<<"n", "cols">>>>,
         <<<<"n", "cols">>, <<"m", "cols">>>>,
         <<<<"m", "cols">>, <<"n", "cols">>>>,
         <<<<"locus", "to_chrM">>, <<"n", "cols">>>>,
         <<<<"n", "cols">>, <<"locus", "parse_locus">>>>,
         <<<<"alleles", "cols">>>>}}

Entries ==
    {[via |-> "load", flag |-> f, force |-> "None"] : f \in BOOLEAN}
    \cup {[via |-> "direct", flag |-> FALSE, force |-> a] : a \in {"None", "True", "False"}}

OldTable ==
    [cols |-> {"locus", "alleles"}, rows |-> <<[id |-> 0, contig |-> "chrM"]>>,
     seen |-> <<>>, key |-> <<"locus", "alleles">>, locus_type |-> "locus"]

Init ==
    /\ pc = "start"
    /\ config \in [input_path : PipeUrls, input_type : {"vcf", "json", "tsv", "xml"},
                   output_path : {"/out/mito.ht"},
                   field_types : {"None", "{locus: tlocus}"},
                   annotate : Annotations, skip_verify_ssl : {"None", "True"}]
    /\ entry \in Entries
    /\ remote \in [has_length : {TRUE}, content_length : {"1"}, body : {1},
                   member : IF endswith(config.input_path.s, ".zip") THEN {"a", "zz"}
                            ELSE {"a"}]
    /\ data \in PipeDocs
    /\ LET base == [q \in {tempdir} |-> [kind |-> "dir", size |-> 0]]
       IN  fs \in {base, PutFile(base, LocalFilePath(config.input_path, tempdir), 1)}
    /\ fs0 = fs
    /\ out0 \in {NoOutput, [exists |-> TRUE, table |-> OldTable]}
    /\ out = out0
    /\ args = NoArgs
    /\ requests = <<>> /\ writes = <<>> /\ result = NoResult
    /\ dn_path = "" /\ tsv = NoTsv /\ loaded = NoLoad /\ ht = NoTable
    /\ stages = <<>> /\ force_write = FALSE

Next ==
    \/ load
    \/ _load_mito_ht
    \/ Fetcher
    \/ Extractor
    \/ Normalizer
    \/ Loader
    \/ Annotator
    \/ FilterKey
    \/ Writer

Spec == Init /\ [][Next]_vars

(***************************************************************************)
(* Properties of the pipeline, checked under Spec.                         *)
(***************************************************************************)
Finished == pc \in {"done", "aborted"}

Ran(stage) == \E i \in 1..Len(stages) : stages[i] = stage

LastStage == IF stages = <<>> THEN "" ELSE stages[Len(stages)]

\* the caller asked for a forced write: -f on the command line, or force_write=True
ForceRequested ==
    \/ entry.via = "load" /\ entry.flag
    \/ entry.via = "direct" /\ entry.force = "True"

\* C2: when a table exists at the output path and the Writer has run, the table is
\* replaced iff the caller requested a forced write; without the request the run
\* ends in the already-exists error with the prior table in place.  Stated for
\* both entries, load and a direct call of _load_mito_ht.
C2_ForceWriteOnlyOnRequest ==
    (Finished /\ LastStage = "Writer" /\ out0.exists)
        => IF ForceRequested
           THEN pc = "done" /\ out = [exists |-> TRUE, table |-> ht]
           ELSE pc = "aborted" /\ result.raised = "HailUserError" /\ out = out0

\* the canonical order of the stages
StageOrder ==
    <<"Fetcher", "Extractor", "Normalizer", "Loader", "Annotator", "Filter & Key", "Writer">>

Rank(stage) == CHOOSE i \in 1..Len(StageOrder) : StageOrder[i] = stage

\* the stages the configuration calls for
Applies(stage) ==
    CASE stage = "Extractor" -> Len(config.input_path.s) >= 4 /\
                                SubSeq(config.input_path.s, Len(config.input_path.s) - 3,
                                       Len(config.input_path.s)) = ".zip"
      [] stage = "Normalizer" -> config.input_type = "json"
      [] stage = "Annotator" -> ~config.annotate.isNone /\ Len(config.annotate.items) > 0
      [] OTHER -> TRUE

AllStagesRan == \A i \in 1..Len(StageOrder) : Applies(StageOrder[i]) => Ran(StageOrder[i])

AtMostOnce == \A i, j \in 1..Len(stages) : stages[i] = stages[j] => i = j

C4_StageOrder ==
    /\ \A i, j \in 1..Len(stages) : i < j => Rank(stages[i]) < Rank(stages[j])
    /\ \A i \in 1..Len(stages) : \A k \in 1..Len(StageOrder) :
          (k < Rank(stages[i]) /\ Applies(StageOrder[k]))
              => \E j \in 1..(i - 1) : stages[j] = StageOrder[k]
    /\ \A i \in 1..Len(stages) : Applies(stages[i])
    /\ Ran("Writer") => LastStage = "Writer"
    /\ out # out0 =>
          /\ Ran("Filter & Key")
          /\ out.table.key = <<"locus", "alleles">>
          /\ \A i \in 1..Len(out.table.rows) : out.table.rows[i].contig = "chrM"
    /\ pc = "done" => AllStagesRan

C4_Witness == pc = "done" /\ stages = StageOrder /\ out # out0

\* the columns of the table the Loader produced
LoadedColumns ==
    IF config.input_type = "vcf" THEN VcfRowFields
    ELSE IF data = <<>> THEN {} ELSE {data[1][i][1] : i \in 1..Len(data[1])}

AnnotatedFields == {config.annotate.items[i][1] : i \in 1..Len(config.annotate.items)}

\* C5: once the Annotator has applied a mapping of two or more entries, every new
\* column was computed from the table as the Loader produced it (none saw a
\* sibling's column), and the table's columns are the loaded columns and the
\* mapping's fields, whatever the order of the entries.
C5_AnnotationIsolation ==
    (Ran("Annotator") /\ ~(pc = "aborted" /\ LastStage = "Annotator")
        /\ Len(config.annotate.items) >= 2)
        => /\ ht.cols = LoadedColumns \cup AnnotatedFields
           /\ DOMAIN ht.seen = AnnotatedFields
           /\ \A f \in AnnotatedFields : ht.seen[f] = LoadedColumns

C5_Witness ==
    /\ LastStage = "Annotator" /\ pc = "filter"
    /\ config.annotate.items = <<<<"n", "cols">>, <<"m", "cols">>>>
    /\ {"n", "m"} \subseteq ht.cols /\ "n" \notin ht.seen["m"]

\* the contig an input row names
SourceContig(i) == ContigOf(LocusOf(data[i]))

KeptIds(table) == {table.rows[i].id : i \in 1..Len(table.rows)}

\* C6: once the filter has run every row of the table has contig "chrM"; on the
\* VCF path every input row named "MT" is among them (recoded), and every row kept
\* was named "MT" or "chrM" in the input; the written table holds "chrM" rows only,
\* for every input type.
C6_MitoFilter ==
    /\ (Ran("Filter & Key") /\ ~(pc = "aborted" /\ LastStage = "Filter & Key"))
         => /\ \A i \in 1..Len(ht.rows) : ht.rows[i].contig = "chrM"
            /\ config.input_type = "vcf" =>
                 /\ \A i \in 1..Len(data) : SourceContig(i) = "MT" => i \in KeptIds(ht)
                 /\ \A i \in KeptIds(ht) : SourceContig(i) \in {"MT", "chrM"}
    /\ pc = "done" => \A i \in 1..Len(out.table.rows) : out.table.rows[i].contig = "chrM"

C6_Witness ==
    /\ pc = "done" /\ config.input_type = "vcf" /\ Len(data) = 3
    /\ KeptIds(out.table) = {2, 3} /\ SourceContig(2) = "MT" /\ SourceContig(1) = "1"

\* C9: the Loader runs once, with the loader the input type selects: "vcf" the VCF
\* loader with the contig recoding map on the working path; "json" the table
\* loader on the TSV the Normalizer wrote; any other value the table loader on
\* the working path.  The Normalizer has run iff the input type is "json", and
\* the recoding map is applied iff it is "vcf".
C9_LoaderSelection ==
    /\ Ran("Normalizer") => config.input_type = "json"
    /\ Ran("Loader") =>
          /\ Ran("Normalizer") <=> config.input_type = "json"
          /\ loaded.recoding <=> config.input_type = "vcf"
          /\ loaded.fn = (IF config.input_type = "vcf" THEN "import_vcf" ELSE "import_table")
          /\ loaded.path = (IF config.input_type = "json" THEN tsv.path ELSE dn_path)
          /\ config.input_type = "json" =>
                tsv.path # dn_path /\ tsv.path \in DOMAIN fs /\ tsv.path \notin DOMAIN fs0
    /\ ~Ran("Loader") => loaded = NoLoad
    /\ AtMostOnce

C9_Witness ==
    /\ pc = "done" /\ config.input_type = "xml"
    /\ loaded.fn = "import_table" /\ loaded.path = dn_path /\ ~Ran("Normalizer")

(***************************************************************************)
(* Properties of _convert_json_to_tsv, checked under SpecTsv.              *)
(***************************************************************************)
\* the pieces of s between occurrences of the character sep
RECURSIVE Split(_, _)
Split(s, sep) ==
    IF s = "" THEN <<"">>
    ELSE LET rest == Split(Tail(s), sep)
         IN  IF Head(s) = sep THEN <<"">> \o rest
             ELSE <<Head(s) \o rest[1]>> \o Tail(rest)

\* the fields of a line of the file: none on an empty line written for no items
Fields(line, n) == IF n = 0 /\ line = "" THEN <<>> ELSE Split(line, "\t")

Newlines(s) == Len(Split(s, "\n")) - 1

RECURSIVE Sum(_)
Sum(ns) == IF ns = <<>> THEN 0 ELSE Head(ns) + Sum(Tail(ns))

TextOf(v) == IF v.t = "int" THEN str_int(v.n) ELSE v.s

\* the newline characters inside the first record's keys and all records' values
InnerNewlines ==
    Sum([k \in 1..Len(data[1]) |-> Newlines(data[1][k][1])])
    + Sum([i \in 1..Len(data) |->
             Sum([k \in 1..Len(data[i]) |-> Newlines(TextOf(data[i][k][2]))])])

Uniform == \A i \in 1..Len(data) :
              [k \in 1..Len(data[i]) |-> data[i][k][1]] = [k \in 1..Len(data[1]) |-> data[1][k][1]]

ConvertCompleted == pc = "returned" /\ result.raised # "JSONDecodeError" /\ data # <<>>

\* the file is Len(data) + 1 newline-terminated lines: the first record's keys,
\* then each record's value texts in its own order, tab-separated
LinePerRecord ==
    LET lines == Split(tsv.text, "\n")
    IN  /\ result.raised = "none"
        /\ Len(lines) = Len(data) + 2 /\ lines[Len(lines)] = ""
        /\ Fields(lines[1], Len(data[1])) = [k \in 1..Len(data[1]) |-> data[1][k][1]]
        /\ \A i \in 1..Len(data) :
              Fields(lines[i + 1], Len(data[i])) =
                  [k \in 1..Len(data[i]) |-> TextOf(data[i][k][2])]

\* C7 as stated: every non-empty document whose records share the first record's
\* keys is written as exactly Len(data) + 1 newline-terminated lines, the header
\* and one line per record.
C7_OneLinePerRecord == (ConvertCompleted /\ Uniform) => LinePerRecord

\* C7, amended: every non-empty document is converted without error, records
\* with other keys included; the file has one newline per record, one for the
\* header and those inside the keys and value texts; when no key or value text
\* holds a newline it is exactly Len(data) + 1 newline-terminated lines, the
\* header and one line per record; the example document gives the example text.
C7_JsonToTsv ==
    ConvertCompleted =>
        /\ result.raised = "none"
        /\ Newlines(tsv.text) = Len(data) + 1 + InnerNewlines
        /\ InnerNewlines = 0 => LinePerRecord
        /\ data = ExampleDoc => tsv.text = "a\tb\n1\t2\n3\t4\n"

\* a record whose keys differ from the first record's, written under its header
C7_Witness ==
    /\ pc = "returned" /\ result.raised = "none" /\ Len(data) = 2 /\ ~Uniform
    /\ data[2] = <<<<"b", IntVal(12)>>, <<"a", StrVal("x")>>>>
    /\ tsv.text = "a\tb\n1\tx\n12\tx\n"

(***************************************************************************)
(* Properties of _download_file, checked under SpecFetch.                  *)
(***************************************************************************)
\* the URL has one of the two schemes, stated on its characters
HasHttpScheme(url) ==
    /\ ~url.isNone
    /\ \E p \in {"http://", "https://"} :
         /\ Len(url.s) >= Len(p)
         /\ \A i \in 1..Len(p) : SubSeq(url.s, i, i) = SubSeq(p, i, i)

Issued(reqs, method) == \E i \in 1..Len(reqs) : reqs[i].method = method

\* the destination path of the call in progress
Destination == LocalFilePath(args.url, args.to_dir)

\* the remote size the metadata request reports (0 when the header is absent)
ReportedSize == IF remote.has_length THEN int(remote.content_length) ELSE 0

SameSizeFileExists ==
    /\ Destination \in DOMAIN fs
    /\ fs[Destination] = [kind |-> "file", size |-> ReportedSize]

VerifyNotSkipped == args.skip_verify \in {"None", "False"}

\* C1: a call with a valid URL and verification not skipped, made when a regular
\* file of the reported remote size is at the destination path, issues no GET
\* request, opens no local file for writing and leaves the files as they were; when
\* the metadata request is answered it returns the destination path.
C1_CacheHitNoDownload ==
    [][(pc = "call_download_file" /\ HasHttpScheme(args.url) /\ VerifyNotSkipped
          /\ SameSizeFileExists)
        => /\ ~Issued(requests', "GET")
           /\ writes' = <<>>
           /\ fs' = fs
           /\ \/ result' = [raised |-> "none", ret |-> Destination]
              \/ result'.raised = "ConnectionError" /\ requests' = <<HeadRequest(args.url)>>]_vars

C1_Witness ==
    /\ pc = "returned" /\ result.raised = "none" /\ VerifyNotSkipped
    /\ result.ret = Destination /\ SameSizeFileExists /\ ReportedSize > 0
    /\ requests = <<HeadRequest(args.url)>> /\ writes = <<>>

\* C8: a call whose URL is missing, empty or without an http:// or https:// prefix
\* raises ValueError having issued no request and touched no file; a call whose
\* URL has one of the prefixes never raises ValueError.
C8_InvalidUrlRejected ==
    [][pc = "call_download_file"
        => IF HasHttpScheme(args.url)
           THEN result'.raised # "ValueError"
           ELSE /\ result' = [raised |-> "ValueError", ret |-> ""]
                /\ requests' = <<>> /\ writes' = <<>> /\ fs' = fs]_vars

C8_Witness ==
    /\ pc = "returned" /\ result.raised = "ValueError"
    /\ args.url = Some("http:/x/a") /\ requests = <<>> /\ writes = <<>>

\* C10: for a valid URL the HEAD request is issued iff verification is not
\* skipped.  With skip_verify set the call always issues the GET request, and when
\* it returns it has written the body to the destination path, whatever was
\* there.  With verification not skipped and the HEAD request answered, the GET
\* request is issued iff no regular file of the reported size is at the
\* destination path.
C10_SkipVerifyBypassesCache ==
    [][(pc = "call_download_file" /\ HasHttpScheme(args.url))
        => /\ Issued(requests', "HEAD") <=> VerifyNotSkipped
           /\ ~VerifyNotSkipped =>
                /\ Issued(requests', "GET")
                /\ result'.raised = "none" =>
                     /\ writes' = <<Destination>>
                     /\ fs'[Destination] = [kind |-> "file", size |-> remote.body]
           /\ (VerifyNotSkipped /\ ~(result'.raised = "ConnectionError" /\ Len(requests') = 1))
                => (Issued(requests', "GET") <=> ~SameSizeFileExists)]_vars

\* skip_verify set, a file of exactly the remote size in place, and still downloaded
C10_Witness ==
    /\ pc = "returned" /\ Destination \in DOMAIN fs0
    /\ fs0[Destination] = [kind |-> "file", size |-> ReportedSize] /\ result.raised = "none" /\ args.skip_verify = "True"
    /\ remote.has_length /\ int(remote.content_length) = remote.body /\ remote.body > 0
    /\ requests = <<GetRequest(args.url, "True")>> /\ writes = <<Destination>>

====
